---- MODULE Spec2Model ----
(***************************************************************************)
(* Door Face Panels: the threat rule engine (api/threat_detection.py),     *)
(* the identity matcher (api/facial_recognition.py), the anomaly detector   *)
(* (doortest/models/anomaly_detection.py) and the per-event pipeline of    *)
(* test_integration.py, as one state machine.                              *)
(*                                                                         *)
(* Time is the wall clock datetime.now(), counted in whole minutes.        *)
(* Encodings are vectors of exact coordinates in tenths, distances are     *)
(* kept by their squares, confidences are in hundredths.                   *)
(***************************************************************************)
EXTENDS Integers, Sequences, FiniteSets, TLC

VARIABLES
    now,              \* datetime.now(), in minutes
    failed_attempts,  \* ThreatDetector.failed_attempts
    access_log,       \* ThreatDetector.access_log
    known_faces,      \* FacialRecognitionEngine.known_faces, in insertion order
    person_names,     \* FacialRecognitionEngine.person_names
    db_access_logs,   \* table access_logs
    db_anomalies,     \* table anomalies
    db_threats,       \* table threats
    model,            \* AnomalyDetector.model
    is_trained,       \* AnomalyDetector.is_trained
    model_file,       \* what models/isolation_forest.pkl holds
    dataset,          \* what data/synthetic_dataset.csv holds
    threads,          \* the register_face calls under way, one per thread
    ret               \* the last call and what it returned

threatVars == <<failed_attempts, access_log>>
faceVars == <<known_faces, person_names, threads>>
dbVars == <<db_access_logs, db_anomalies, db_threats>>
anomalyVars == <<model, is_trained, model_file, dataset>>
vars == <<now, failed_attempts, access_log, known_faces, person_names,
          db_access_logs, db_anomalies, db_threats, model, is_trained,
          model_file, dataset, threads, ret>>

(* ---------------------------------------------------------------- bounds *)
MaxLog == 3
MaxElapsed == 11
MaxFaces == 2
MaxBatch == 2
MaxStore == 1
MaxRows == 101
MaxClasses == 2

(* ------------------------------------------------------------- constants *)
failed_attempt_threshold == 3
failed_attempt_window_minutes == 10
inactivity_threshold_hours == 24
default_window_minutes == 60
default_spike_threshold == 10
MinutesPerHour == 60
HoursPerDay == 24

DefaultUnusualHours == {22, 23, 0, 1, 2, 3, 4, 5}

Persons == {"resident_001", "unknown_001"}

(* wall-clock readings at construction: 02:00 and 14:00 of the second day *)
StartTimes == {26 * MinutesPerHour, 38 * MinutesPerHour}
TickSteps == {failed_attempt_window_minutes}

Boot(t) == CHOOSE s \in StartTimes : s <= t /\ t - s < 12 * MinutesPerHour

(* the clock is followed through bursts of activity of at most MaxElapsed
   minutes, the first at construction and one more after an idle hour *)
IdleMinutes == default_window_minutes
SinceBoot(t) == t - Boot(t)
Elapsed(t) == SinceBoot(t) % IdleMinutes

(* datetime.hour of a minute count *)
Hour(t) == (t \div MinutesPerHour) % HoursPerDay

(* Optional[Dict]: the None result, and the result of a step that returns nothing *)
None == [threat_type |-> "None"]
NoCall == [op |-> "none"]

(* unusual_hours arguments: omitted (None), or an explicit list *)
UnusualHoursArgs == {[is_none |-> TRUE, hours |-> {}], [is_none |-> FALSE, hours |-> {14}]}
(* last_activity arguments, as minutes before the call *)
LastActivityAges == {inactivity_threshold_hours * MinutesPerHour - 1,
                     inactivity_threshold_hours * MinutesPerHour,
                     inactivity_threshold_hours * MinutesPerHour + 1}
(* window_minutes and spike_threshold arguments, the defaults among them *)
WindowArgs == {failed_attempt_window_minutes, default_window_minutes}
SpikeThresholdArgs == {1, default_spike_threshold}

(* ------------------------------------------------------ ThreatDetector *)
(* the threshold test of check_failed_access_attempts made strict *)
check_failed_access_attempts_strict(attempts, person_id, t) ==
    LET window_start == t - failed_attempt_window_minutes
        InWindow(attempt) == attempt.timestamp > window_start /\ attempt.person_id = person_id
        recent_failures == SelectSeq(attempts, InWindow)
    IN IF Len(recent_failures) > failed_attempt_threshold
       THEN [threat_type |-> "REPEATED_FAILED_ACCESS", severity |-> "HIGH",
             person_id |-> person_id, failed_count |-> Len(recent_failures),
             timestamp |-> t]
       ELSE None

check_failed_access_attempts(attempts, person_id, t) ==
    LET window_start == t - failed_attempt_window_minutes
        InWindow(attempt) == attempt.timestamp > window_start /\ attempt.person_id = person_id
        recent_failures == SelectSeq(attempts, InWindow)
    IN IF Len(recent_failures) >= failed_attempt_threshold
       THEN [threat_type |-> "REPEATED_FAILED_ACCESS", severity |-> "HIGH",
             person_id |-> person_id, failed_count |-> Len(recent_failures),
             timestamp |-> t]
       ELSE None

(* check_inactivity firing at the threshold itself *)
check_inactivity_inclusive(person_id, last_activity, t) ==
    LET inactivity_duration == t - last_activity
        threshold == inactivity_threshold_hours * MinutesPerHour
    IN IF inactivity_duration >= threshold
       THEN [threat_type |-> "PROLONGED_INACTIVITY", severity |-> "CRITICAL",
             person_id |-> person_id, inactivity_minutes |-> inactivity_duration,
             last_activity |-> last_activity, timestamp |-> t]
       ELSE None

(* inactivity_hours is kept in minutes: total_seconds() / 3600 is minutes / 60 *)
check_inactivity(person_id, last_activity, t) ==
    LET inactivity_duration == t - last_activity
        threshold == inactivity_threshold_hours * MinutesPerHour
    IN IF inactivity_duration > threshold
       THEN [threat_type |-> "PROLONGED_INACTIVITY", severity |-> "CRITICAL",
             person_id |-> person_id, inactivity_minutes |-> inactivity_duration,
             last_activity |-> last_activity, timestamp |-> t]
       ELSE None

check_unusual_access_time(person_id, unusual_hours_arg, t) ==
    LET unusual_hours == IF unusual_hours_arg.is_none THEN DefaultUnusualHours
                         ELSE unusual_hours_arg.hours
    IN IF Hour(t) \in unusual_hours
       THEN [threat_type |-> "UNUSUAL_ACCESS_TIME", severity |-> "MEDIUM",
             person_id |-> person_id, access_hour |-> Hour(t), timestamp |-> t]
       ELSE None

(* check_frequency_spike counting every status *)
check_frequency_spike_any_status(log, person_id, window_minutes, spike_threshold, t) ==
    LET window_start == t - window_minutes
        InWindow(access) == /\ access.timestamp > window_start
                            /\ access.person_id = person_id
        recent_accesses == SelectSeq(log, InWindow)
    IN IF Len(recent_accesses) > spike_threshold
       THEN [threat_type |-> "ACCESS_FREQUENCY_SPIKE", severity |-> "MEDIUM",
             person_id |-> person_id, access_count |-> Len(recent_accesses),
             window_minutes |-> window_minutes, timestamp |-> t]
       ELSE None

check_frequency_spike(log, person_id, window_minutes, spike_threshold, t) ==
    LET window_start == t - window_minutes
        InWindow(access) == /\ access.timestamp > window_start
                            /\ access.person_id = person_id
                            /\ access.status = "success"
        recent_accesses == SelectSeq(log, InWindow)
    IN IF Len(recent_accesses) > spike_threshold
       THEN [threat_type |-> "ACCESS_FREQUENCY_SPIKE", severity |-> "MEDIUM",
             person_id |-> person_id, access_count |-> Len(recent_accesses),
             window_minutes |-> window_minutes, timestamp |-> t]
       ELSE None

(* log_access_attempt at clock reading t; a failure reads the clock a second
   time, at t2, for failed_attempts *)
log_access_attempt_access_log(log, person_id, success, t) ==
    Append(log, [timestamp |-> t, person_id |-> person_id,
                        status |-> IF success THEN "success" ELSE "failed"])

log_access_attempt_failed_attempts(attempts, person_id, success, t2) ==
    IF ~success THEN Append(attempts, [timestamp |-> t2, person_id |-> person_id])
    ELSE attempts

get_threat_stats ==
    [total_failed_attempts |-> Len(failed_attempts),
     total_logged_accesses |-> Len(access_log)]

(* ----------------------------------------------- FacialRecognitionEngine *)
(* encodings are vectors of coordinates in tenths; None is the empty tuple *)
NoEncoding == <<>>
Vectors == {<<0, 0>>, <<5, 0>>, <<7, 0>>, <<0, 7>>, <<12, 0>>}
Encodings == Vectors \cup {NoEncoding}
FaceIds == {"resident_001", "resident_002", ""}
FaceNames == {"John Doe", "Jane Smith"}
(* None as a person_id *)
NoPerson == "None"

(* np.linalg.norm(a - b), squared, in hundredths *)
RECURSIVE SumSquares(_, _, _)
SumSquares(a, b, i) ==
    IF i = 0 THEN 0
    ELSE (a[i] - b[i]) * (a[i] - b[i]) + SumSquares(a, b, i - 1)

Distance2(a, b) == SumSquares(a, b, Len(a))

(* float('inf'), and a finite distance by its square *)
Infinity == [inf |-> TRUE, sq |-> 0]
Finite(sq) == [inf |-> FALSE, sq |-> sq]
(* the comparison turned round: the farthest encoding wins *)
Less_farthest(sq, best) == best.inf \/ sq > best.sq

Less(sq, best) == best.inf \/ sq < best.sq

(* the encodings in the order of the two nested loops *)
RECURSIVE Enrolled(_)
Enrolled(faces) ==
    IF faces = <<>> THEN <<>>
    ELSE [i \in 1..Len(Head(faces).encodings) |->
             [person_id |-> Head(faces).person_id, encoding |-> Head(faces).encodings[i]]]
         \o Enrolled(Tail(faces))

(* the loop over the enrolled encodings; test_encoding - None raises TypeError *)
RECURSIVE Compare(_, _, _)
Compare(pairs, test_encoding, best) ==
    IF pairs = <<>> THEN best
    ELSE IF Head(pairs).encoding = NoEncoding
         THEN [best EXCEPT !.raised = TRUE]
         ELSE LET distance == Distance2(test_encoding, Head(pairs).encoding)
              IN Compare(Tail(pairs), test_encoding,
                         IF Less(distance, best.best_distance)
                         THEN [best EXCEPT !.best_distance = Finite(distance),
                                           !.best_match = Head(pairs).person_id]
                         ELSE best)

(* floor of the square root *)
Sqrt(n) == CHOOSE r \in 0..100 : r * r <= n /\ n < (r + 1) * (r + 1)

(* max(0, 1 - best_distance), in hundredths *)
Confidence(best_distance) ==
    IF best_distance.inf \/ best_distance.sq >= 100 THEN 0
    ELSE 100 - Sqrt(best_distance.sq * 100)

(* best_distance < 0.7 *)
MatchDistance == 7
(* the distance threshold made inclusive *)
IsMatch_inclusive(best_distance) ==
    ~best_distance.inf /\ best_distance.sq <= MatchDistance * MatchDistance

IsMatch(best_distance) ==
    ~best_distance.inf /\ best_distance.sq < MatchDistance * MatchDistance

(* the truth value of best_match *)
Truthy(person_id) == person_id \notin {NoPerson, ""}

Raised == [raised |-> TRUE]

(* recognize_face starting the search at distance 0 *)
recognize_face_from_zero(faces, names, test_encoding, t) ==
    IF test_encoding = NoEncoding
    THEN [raised |-> FALSE, person_id |-> NoPerson, name |-> "Unknown",
          confidence |-> 0, timestamp |-> t]
    ELSE LET best == Compare(Enrolled(faces), test_encoding,
                             [raised |-> FALSE, best_match |-> NoPerson,
                              best_distance |-> Finite(0)])
             confidence == Confidence(best.best_distance)
             is_match == IsMatch(best.best_distance)
         IN IF best.raised THEN Raised
            ELSE IF is_match /\ Truthy(best.best_match)
            THEN [raised |-> FALSE, person_id |-> best.best_match,
                  name |-> IF best.best_match \in DOMAIN names
                           THEN names[best.best_match] ELSE "Unknown",
                  confidence |-> confidence, timestamp |-> t]
            ELSE [raised |-> FALSE, person_id |-> NoPerson, name |-> "Unknown",
                  confidence |-> confidence, timestamp |-> t]

recognize_face(faces, names, test_encoding, t) ==
    IF test_encoding = NoEncoding
    THEN [raised |-> FALSE, person_id |-> NoPerson, name |-> "Unknown",
          confidence |-> 0, timestamp |-> t]
    ELSE LET best == Compare(Enrolled(faces), test_encoding,
                             [raised |-> FALSE, best_match |-> NoPerson,
                              best_distance |-> Infinity])
             confidence == Confidence(best.best_distance)
             is_match == IsMatch(best.best_distance)
         IN IF best.raised THEN Raised
            ELSE IF is_match /\ Truthy(best.best_match)
            THEN [raised |-> FALSE, person_id |-> best.best_match,
                  name |-> IF best.best_match \in DOMAIN names
                           THEN names[best.best_match] ELSE "Unknown",
                  confidence |-> confidence, timestamp |-> t]
            ELSE [raised |-> FALSE, person_id |-> NoPerson, name |-> "Unknown",
                  confidence |-> confidence, timestamp |-> t]

HasPerson(faces, person_id) == \E i \in DOMAIN faces : faces[i].person_id = person_id

register_face_known_faces(faces, person_id, face_encoding) ==
    LET created == IF HasPerson(faces, person_id) THEN faces
                   ELSE Append(faces, [person_id |-> person_id, encodings |-> <<>>])
    IN [i \in DOMAIN created |->
           IF created[i].person_id = person_id
           THEN [created[i] EXCEPT !.encodings = Append(@, face_encoding)]
           ELSE created[i]]

register_face_person_names(names, person_id, name) ==
    [p \in DOMAIN names \cup {person_id} |-> IF p = person_id THEN name ELSE names[p]]

(* self.known_faces[person_id] = [] *)
known_faces_set_empty(faces, person_id) ==
    IF HasPerson(faces, person_id)
    THEN [i \in DOMAIN faces |->
             IF faces[i].person_id = person_id
             THEN [faces[i] EXCEPT !.encodings = <<>>] ELSE faces[i]]
    ELSE Append(faces, [person_id |-> person_id, encodings |-> <<>>])

(* list.append on the list known_faces holds for person_id *)
known_faces_append(faces, person_id, face_encoding) ==
    [i \in DOMAIN faces |->
        IF faces[i].person_id = person_id
        THEN [faces[i] EXCEPT !.encodings = Append(@, face_encoding)] ELSE faces[i]]

(* the threads that call register_face, and where a thread stands in it:
   idle (outside the call), check (before the membership test), create
   (before the assignment of []), load (before the subscript), append (holding
   the list, before append), name (before the assignment of the name); stale
   says that the list the thread holds is no longer the one in known_faces;
   completed counts the calls of the thread that have returned *)
Threads == {1, 2}

ThreadEncodings == {<<0, 0>>, <<5, 0>>}

NotCalling(completed) ==
    [pc |-> "idle", person_id |-> NoPerson, name |-> "", face_encoding |-> NoEncoding,
     stale |-> FALSE, completed |-> completed]

RECURSIVE Completed(_, _)
Completed(running, among) ==
    IF among = {} THEN 0
    ELSE LET thread == CHOOSE th \in among : TRUE
         IN running[thread].completed + Completed(running, among \ {thread})

InFlight(running) == Cardinality({thread \in Threads : running[thread].pc # "idle"})

RECURSIVE CountEncodings(_)
CountEncodings(faces) ==
    IF faces = <<>> THEN 0 ELSE Len(Head(faces).encodings) + CountEncodings(Tail(faces))

get_recognition_stats(faces) ==
    [total_persons |-> Len(faces), total_face_encodings |-> CountEncodings(faces)]

(* _extract_face_features.  A crop is None, empty, an array cvtColor refuses,
   or an image; an image is given by what resize, cvtColor, equalizeHist and
   Sobel make of it: Side x Side pixels, in classes of count pixels that share
   the gray level, the bin of the gradient direction and the gradient
   magnitude. *)
Side == 64
GrayLevels == 256
GrayBins == 64
DirectionBins == 8
DescriptorSize == 128

NoCrop == [kind |-> "None"]
EmptyCrop == [kind |-> "empty"]
NotBgrCrop == [kind |-> "not BGR"]

PixelClasses ==
    [count : {1, 2047, 2048, 4095, 4096}, level : {0, 255},
     direction : {DirectionBins}, magnitude : {0, 3}]

RECURSIVE Pixels(_)
Pixels(classes) ==
    IF classes = <<>> THEN 0 ELSE Head(classes).count + Pixels(Tail(classes))

ClassSequences ==
    UNION {[1..n -> PixelClasses] : n \in 1..MaxClasses}

Images ==
    {[kind |-> "image", classes |-> classes] :
        classes \in {cs \in ClassSequences : Pixels(cs) = Side * Side}}

Crops == {NoCrop, EmptyCrop, NotBgrCrop} \cup Images

(* np.histogram(direction, bins = 8 edges, weights = magnitude) *)
RECURSIVE WeightAt(_, _)
WeightAt(classes, bin) ==
    IF classes = <<>> THEN 0
    ELSE (IF Head(classes).direction = bin
          THEN Head(classes).count * Head(classes).magnitude ELSE 0)
         + WeightAt(Tail(classes), bin)

(* cv2.calcHist([gray], [0], None, [64], [0, 256]) *)
RECURSIVE CountAt(_, _)
CountAt(classes, bin) ==
    IF classes = <<>> THEN 0
    ELSE (IF Head(classes).level \div (GrayLevels \div GrayBins) = bin - 1
          THEN Head(classes).count ELSE 0)
         + CountAt(Tail(classes), bin)

(* the sum of the squares, and of the components, of vector[first..last] *)
RECURSIVE SquaresBetween(_, _, _)
SquaresBetween(vector, first, last) ==
    IF first > last THEN 0
    ELSE IF first = last THEN vector[first] * vector[first]
    ELSE LET middle == (first + last) \div 2
         IN SquaresBetween(vector, first, middle) + SquaresBetween(vector, middle + 1, last)

Norm2(vector) == SquaresBetween(vector, 1, Len(vector))

RECURSIVE TotalBetween(_, _, _)
TotalBetween(vector, first, last) ==
    IF first > last THEN 0
    ELSE IF first = last THEN vector[first]
    ELSE LET middle == (first + last) \div 2
         IN TotalBetween(vector, first, middle) + TotalBetween(vector, middle + 1, last)

Total(vector) == TotalBetween(vector, 1, Len(vector))

combined_features(classes) ==
    LET hist_grad == [bin \in 1..DirectionBins |-> WeightAt(classes, bin)]
        hist_gray == [bin \in 1..GrayBins |-> CountAt(classes, bin)]
        combined == hist_grad \o hist_gray
    IN IF Len(combined) > DescriptorSize THEN SubSeq(combined, 1, DescriptorSize)
       ELSE combined \o [k \in 1..(DescriptorSize - Len(combined)) |-> 0]

(* the descriptor divided by the sum of its components *)
extract_face_features_by_sum(face_roi) ==
    IF face_roi \in {NoCrop, EmptyCrop, NotBgrCrop} THEN NoEncoding
    ELSE LET combined == combined_features(face_roi.classes)
         IN [features |-> combined, divisor2 |-> Total(combined) * Total(combined)]

(* the descriptor is features / sqrt(divisor2); None when the crop is None
   or empty, and when a cv2 call raises *)
extract_face_features(face_roi) ==
    IF face_roi \in {NoCrop, EmptyCrop} THEN NoEncoding
    ELSE IF face_roi = NotBgrCrop THEN NoEncoding
    ELSE LET combined == combined_features(face_roi.classes)
             norm2 == Norm2(combined)
         IN IF norm2 > 0 THEN [features |-> combined, divisor2 |-> norm2]
            ELSE [features |-> combined, divisor2 |-> 1]

(* ------------------------------------------------------------ Database *)
AccessTypes == {"entry", "exit"}
Severities == {"LOW", "MEDIUM", "HIGH", "CRITICAL"}

(* log_access on a table without its constraints *)
db_log_access_unchecked(table, user_id, access_type, confidence, status, t) ==
    [ok |-> TRUE,
     table |-> Append(table, [user_id |-> user_id, access_type |-> access_type,
                              confidence |-> confidence, status |-> status,
                              timestamp |-> t])]

(* INSERT INTO access_logs; the CHECK on access_type or NOT NULL on user_id
   makes the insert fail, the exception is caught and False is returned *)
db_log_access(table, user_id, access_type, confidence, status, t) ==
    IF access_type \in AccessTypes /\ user_id # NoPerson
    THEN [ok |-> TRUE,
          table |-> Append(table, [user_id |-> user_id, access_type |-> access_type,
                                   confidence |-> confidence, status |-> status,
                                   timestamp |-> t])]
    ELSE [ok |-> FALSE, table |-> table]

(* log_threat storing the default message '' *)
db_log_threat_no_message(table, threat_type, severity, user_id, message, t) ==
    IF severity \in Severities
    THEN [ok |-> TRUE,
          table |-> Append(table, [user_id |-> user_id, threat_type |-> threat_type,
                                   severity |-> severity, message |-> <<"">>,
                                   resolved |-> FALSE, timestamp |-> t])]
    ELSE [ok |-> FALSE, table |-> table]

(* INSERT INTO threats, with the CHECK on severity; user_id may be NULL *)
db_log_threat(table, threat_type, severity, user_id, message, t) ==
    IF severity \in Severities
    THEN [ok |-> TRUE,
          table |-> Append(table, [user_id |-> user_id, threat_type |-> threat_type,
                                   severity |-> severity, message |-> message,
                                   resolved |-> FALSE, timestamp |-> t])]
    ELSE [ok |-> FALSE, table |-> table]

(* INSERT INTO anomalies, with NOT NULL on user_id *)
db_log_anomaly(table, user_id, anomaly_type, anomaly_score, description, t) ==
    IF user_id # NoPerson
    THEN [ok |-> TRUE,
          table |-> Append(table, [user_id |-> user_id, anomaly_type |-> anomaly_type,
                                   anomaly_score |-> anomaly_score,
                                   description |-> description, timestamp |-> t])]
    ELSE [ok |-> FALSE, table |-> table]

(* None, for a query parameter that is absent and for a key a row lacks *)
NoValue == "None"

(* ORDER BY timestamp DESC: the rows of the latest timestamp first, then
   those of the one before, and so on; rows of one timestamp come in an order
   SQLite does not fix, taken here as rowid order one way or the other *)
Reverse(rows) == [k \in 1..Len(rows) |-> rows[Len(rows) + 1 - k]]

Latest(stamps) == CHOOSE t \in stamps : \A other \in stamps : other <= t

RECURSIVE ordered_from(_, _, _)
ordered_from(rows, stamps, ascending) ==
    IF stamps = {} THEN <<>>
    ELSE LET at_latest(row) == row.timestamp = Latest(stamps)
             group == SelectSeq(rows, at_latest)
         IN (IF ascending THEN group ELSE Reverse(group))
                \o ordered_from(rows, stamps \ {Latest(stamps)}, ascending)

order_by_timestamp_desc(rows, ascending) ==
    ordered_from(rows, {rows[i].timestamp : i \in 1..Len(rows)}, ascending)

(* SELECT * FROM threats WHERE resolved = 0 [AND severity = ?] *)
get_active_threats(table, severity, ascending) ==
    LET active(row) == ~row.resolved /\ (severity # NoValue => row.severity = severity)
    IN order_by_timestamp_desc(SelectSeq(table, active), ascending)

(* dict.get(key) *)
row_get(row, key) == IF key \in DOMAIN row THEN row[key] ELSE NoValue

(* GET /threats *)
get_threats(table, person_id, severity, ascending) ==
    LET threats == get_active_threats(table, severity, ascending)
        of_person(threat) == row_get(threat, "person_id") = person_id
        filtered == IF person_id # NoValue THEN SelectSeq(threats, of_person) ELSE threats
    IN [threats |-> filtered, total |-> Len(filtered)]

(* LIMIT of get_access_logs when the caller passes none *)
default_limit == 100

(* rows OFFSET offset LIMIT limit, and logs[offset:offset+limit], for
   limit >= 0 and offset >= 0 *)
Slice(rows, offset, limit) ==
    LET last == IF offset + limit < Len(rows) THEN offset + limit ELSE Len(rows)
    IN SubSeq(rows, offset + 1, last)

(* the SELECT of get_access_logs: user_id, access_type under the names
   person_id, type; name comes from users, which holds no row *)
AccessLogRow(row) ==
    [person_id |-> row.user_id, name |-> NoValue, type |-> row.access_type,
     confidence |-> row.confidence, status |-> row.status, timestamp |-> row.timestamp]

MatchingLogs(table, user_id, ascending) ==
    LET wanted(row) == user_id # NoValue => row.user_id = user_id
        ordered == order_by_timestamp_desc(SelectSeq(table, wanted), ascending)
    IN [k \in 1..Len(ordered) |-> AccessLogRow(ordered[k])]

db_get_access_logs(table, user_id, limit, offset, ascending) ==
    Slice(MatchingLogs(table, user_id, ascending), offset, limit)

(* GET /logs: the store is asked without limit and offset, its answer is
   sliced *)
get_access_logs(table, person_id, limit, offset, ascending) ==
    LET logs == db_get_access_logs(table, person_id, default_limit, 0, ascending)
    IN [logs |-> Slice(logs, offset, limit), total |-> Len(logs),
        limit |-> limit, offset |-> offset]

(* ------------------------------------------------------- AnomalyDetector *)
(* what predict_anomaly returns while is_trained is False; the detector of
   the pipeline is constructed and never trained *)
predict_anomaly_untrained ==
    [is_anomaly |-> FALSE, anomaly_score |-> 0, confidence |-> 0,
     reason |-> "Model not trained"]

(* datetime.weekday(), the days counted from a Monday *)
Weekday(t) == (t \div (HoursPerDay * MinutesPerHour)) % 7

(* access events as the pipeline and the tests build them; a malformed event
   has no timestamp; the rows of the synthetic dataset carry the key
   access_type and no key type *)
AccessEvents ==
    [timestamp : StartTimes, person_id : Persons, type : AccessTypes,
     confidence : {92}]
MalformedEvents == {[person_id |-> "resident_001", type |-> "entry", confidence |-> 92]}
DatasetEvents ==
    [timestamp : {26 * MinutesPerHour}, person_id : {"resident_001"},
     access_type : {"entry"}, confidence : {92}, is_normal : {"yes"}]
EventInputs == AccessEvents \cup MalformedEvents \cup DatasetEvents

(* the detector never reads person_id: one person's events are enough for
   predict_anomaly and batch_predict *)
DetectorEvents == {e \in EventInputs : e.person_id = "resident_001"}

EventSequences(events) == UNION {[1..n -> events] : n \in 0..MaxBatch}

(* access['timestamp'] and access['type'] raise KeyError on a missing key *)
WellFormed(access) == {"timestamp", "type"} \subseteq DOMAIN access

(* timedelta.total_seconds() / 3600, in hundredths of an hour *)
Hours(minutes) == (minutes * 100) \div MinutesPerHour

(* the row of event i: the interval is taken from the element before it in
   the sequence *)
feature_vector(access_sequence, i) ==
    LET access == access_sequence[i]
    IN [hour |-> Hour(access.timestamp),
        day_of_week |-> Weekday(access.timestamp),
        access_type |-> IF access.type = "entry" THEN 1 ELSE 0,
        confidence |-> IF "confidence" \in DOMAIN access THEN access.confidence ELSE 0,
        time_diff |-> IF i > 1
                      THEN Hours(access.timestamp - access_sequence[i - 1].timestamp)
                      ELSE 0]

(* extract_features: the feature matrix, or the exception out of the loop *)
extract_features(access_sequence) ==
    IF \E i \in DOMAIN access_sequence : ~WellFormed(access_sequence[i])
    THEN Raised
    ELSE [raised |-> FALSE,
          rows |-> [i \in DOMAIN access_sequence |-> feature_vector(access_sequence, i)]]

(* self.model: None, an IsolationForest before fit, or a fitted one. A fitted
   forest is known by the score_samples it gives each row, in tenths, and by
   its offset_; fit may produce any of them *)
NoModel == [kind |-> "None"]
Unfitted == [kind |-> "IsolationForest", fitted |-> FALSE]
Rows == {extract_features(<<e>>).rows[1] : e \in AccessEvents}
Scores == {-4, -6}
Offset == -5
Forests ==
    [kind : {"IsolationForest"}, fitted : {TRUE}, score_samples : [Rows -> Scores],
     offset : {Offset}]
IsFitted(forest) == forest.kind = "IsolationForest" /\ forest.fitted

(* IsolationForest.predict: -1 where score_samples - offset_ is negative *)
model_predict(forest, row) ==
    IF forest.score_samples[row] - forest.offset < 0 THEN -1 ELSE 1

(* np.exp of x tenths, in ten-thousandths, summed from its series *)
RECURSIVE ExpSeries(_, _, _)
ExpSeries(x, k, term) ==
    IF term = 0 THEN 0
    ELSE term + ExpSeries(x, k + 1, (term * x) \div (10 * k))

Exp(x) == ExpSeries(x, 1, 10000)

(* 1 / (1 + np.exp(score)), in hundredths *)
normalized_score(score) == (100 * 10000) \div (10000 + Exp(score))

Abs(x) == IF x < 0 THEN -x ELSE x

(* the label replaced by a threshold of 0.7 on the normalized score *)
IsAnomaly_by_threshold(prediction, normalized) == normalized > 70

IsAnomaly(prediction, normalized) == prediction = -1

(* what the except branch returns *)
ErrorVerdict(e) == [is_anomaly |-> FALSE, anomaly_score |-> 0, error |-> e]

(* predict_anomaly deciding on the presence of a model *)
predict_anomaly_if_no_model(forest, trained, access_event, t) ==
    IF forest = NoModel THEN predict_anomaly_untrained
    ELSE LET features == extract_features(<<access_event>>)
         IN IF features.raised THEN ErrorVerdict("KeyError")
            ELSE IF ~IsFitted(forest) THEN ErrorVerdict("NotFittedError")
            ELSE LET prediction == model_predict(forest, features.rows[1])
                     score == forest.score_samples[features.rows[1]]
                     normalized == normalized_score(score)
                 IN [is_anomaly |-> IsAnomaly(prediction, normalized),
                     anomaly_score |-> normalized,
                     confidence |-> Abs(score),
                     timestamp |-> t]

(* confidence is |score| in tenths, anomaly_score in hundredths *)
predict_anomaly(forest, trained, access_event, t) ==
    IF ~trained THEN predict_anomaly_untrained
    ELSE LET features == extract_features(<<access_event>>)
         IN IF features.raised THEN ErrorVerdict("KeyError")
            ELSE IF forest = NoModel THEN ErrorVerdict("AttributeError")
            ELSE IF ~IsFitted(forest) THEN ErrorVerdict("NotFittedError")
            ELSE LET prediction == model_predict(forest, features.rows[1])
                     score == forest.score_samples[features.rows[1]]
                     normalized == normalized_score(score)
                 IN [is_anomaly |-> IsAnomaly(prediction, normalized),
                     anomaly_score |-> normalized,
                     confidence |-> Abs(score),
                     timestamp |-> t]

(* batch_predict extracting the features of the whole list at once: one
   malformed event fails every element *)
batch_predict_vectorised(forest, trained, access_events, t) ==
    IF trained /\ extract_features(access_events).raised
    THEN [i \in DOMAIN access_events |-> ErrorVerdict("KeyError")]
    ELSE [i \in DOMAIN access_events |-> predict_anomaly(forest, trained, access_events[i], t)]

batch_predict(forest, trained, access_events, t) ==
    [i \in DOMAIN access_events |-> predict_anomaly(forest, trained, access_events[i], t)]

(* training inputs: np.array([]) makes fit raise ValueError *)
TrainingData == {extract_features(s).rows : s \in {<<>>} \cup {<<e>> : e \in DetectorEvents \cap AccessEvents}}

(* train_isolation_forest: the import may fail, leaving everything as it
   was; the new forest is assigned before fit, so a failing fit leaves an
   unfitted forest in self.model *)
train_isolation_forest(forest, trained, training_data, sklearn, fitted_forest) ==
    IF ~sklearn
    THEN [model |-> forest, is_trained |-> trained, value |-> FALSE]
    ELSE IF training_data = <<>>
    THEN [model |-> Unfitted, is_trained |-> trained, value |-> FALSE]
    ELSE [model |-> fitted_forest, is_trained |-> TRUE, value |-> TRUE]

(* the file of the trainer, and a path in a directory that does not exist *)
ModelPath == "models/isolation_forest.pkl"
Paths == {ModelPath, "missing/isolation_forest.pkl"}
NoFile == [kind |-> "NoFile"]

(* pickle.dump(self.model): the model alone is written *)
save_model(file, forest, filepath) ==
    IF filepath = ModelPath
    THEN [file |-> forest, value |-> TRUE]
    ELSE [file |-> file, value |-> FALSE]

(* pickle.load, then is_trained = True whatever was loaded *)
load_model(forest, trained, file, filepath) ==
    IF filepath = ModelPath /\ file # NoFile
    THEN [model |-> file, is_trained |-> TRUE, value |-> TRUE]
    ELSE [model |-> forest, is_trained |-> trained, value |-> FALSE]

get_model_stats(forest, trained) ==
    [model_type |-> "isolation_forest", is_trained |-> trained,
     has_model |-> forest # NoModel]

(* ------------------------------------------- SyntheticDataGenerator, trainer *)
MinutesPerDay == 24 * MinutesPerHour

(* _create_event: the confidence is drawn from 0.85..0.99 for a normal event
   and from 0.5..0.85 otherwise *)
create_event(person_id, access_type, timestamp, is_normal, role, confidence) ==
    [timestamp |-> timestamp, person_id |-> person_id, access_type |-> access_type,
     confidence |-> confidence, is_normal |-> IF is_normal THEN "yes" ELSE "no",
     role |-> role, device_id |-> "door_001"]

(* the events a run of generate_dataset may create for the day before t *)
CreatedEvents(t) ==
    {create_event("resident_1", "entry", t - MinutesPerDay + minutes, is_normal, "resident",
                  IF is_normal THEN 92 ELSE 60) :
        minutes \in {0, MinutesPerHour}, is_normal \in BOOLEAN}

(* events.sort(key = timestamp): stable *)
sort_by_timestamp(events) ==
    LET earlier(j, i) == \/ events[j].timestamp < events[i].timestamp
                         \/ events[j].timestamp = events[i].timestamp /\ j < i
        position(i) == Cardinality({j \in DOMAIN events : earlier(j, i)}) + 1
    IN [k \in DOMAIN events |-> events[CHOOSE i \in DOMAIN events : position(i) = k]]

(* a row as csv.DictReader gives it back: every value is a string *)
Str(value) == <<"str", value>>

csv_row(event) == [key \in DOMAIN event |-> IF key = "confidence" THEN Str(event[key])
                                             ELSE event[key]]

(* _write_csv: nothing is written when there is no event *)
write_csv(file, events) ==
    IF events = <<>> THEN file
    ELSE LET sorted == sort_by_timestamp(events)
         IN [kind |-> "csv", rows |-> [i \in DOMAIN sorted |-> csv_row(sorted[i])]]

(* load_dataset: [] when the file cannot be opened *)
load_dataset(file) == IF file = NoFile THEN <<>> ELSE file.rows

(* train_model: load, extract, train, save; an exception of extract_features
   leaves the function *)
train_model(forest, trained, file, pickle, sklearn, fitted_forest) ==
    LET events == load_dataset(file)
        X == extract_features(events)
        success == train_isolation_forest(forest, trained, X.rows, sklearn, fitted_forest)
    IN IF X.raised
       THEN [raised |-> TRUE, model |-> forest, is_trained |-> trained, model_file |-> pickle]
       ELSE IF success.value
       THEN [raised |-> FALSE, value |-> TRUE, model |-> success.model,
             is_trained |-> success.is_trained,
             model_file |-> save_model(pickle, success.model, ModelPath).file]
       ELSE [raised |-> FALSE, value |-> FALSE, model |-> success.model,
             is_trained |-> success.is_trained, model_file |-> pickle]

(* evaluate_model: the predictions, then the division by len(events) *)
evaluate_model(forest, trained, file, t) ==
    LET events == load_dataset(file)
    IN [predictions |-> batch_predict(forest, trained, events, t),
        raised |-> events = <<>>]

(* ------------------------------------------------------------- pipeline *)
(* confidences are in hundredths *)
LowConfidence == 60
EventConfidences == {45, 92}
EventAges == {0, 12 * MinutesPerHour}

(* the events handed to the pipeline at clock reading t: their timestamps
   are their own, at or before t *)
Events(t) ==
    [timestamp : {t - a : a \in EventAges}, person_id : Persons,
     type : AccessTypes, confidence : EventConfidences]

(* events of a type outside the CHECK of access_logs *)
RejectedEvents(t) ==
    [timestamp : {t}, person_id : Persons, type : {"denied"},
     confidence : EventConfidences]

(* limit and offset of the requests for /logs *)
Pages == {[limit |-> 100, offset |-> 0], [limit |-> 1, offset |-> 100]}

(* user_id arguments of the store calls: a person, or None *)
StoreUsers == {"resident_001", NoPerson}

Optional(alert) == IF alert = None THEN <<>> ELSE <<alert>>

(* threat['message']: the text of the alert with the values it is formatted
   with *)
Message(threat) ==
    CASE threat.threat_type = "REPEATED_FAILED_ACCESS" ->
            <<"Multiple failed access attempts detected", threat.failed_count>>
      [] threat.threat_type = "PROLONGED_INACTIVITY" ->
            <<"No door activity for hours", threat.inactivity_minutes>>
      [] threat.threat_type = "UNUSUAL_ACCESS_TIME" ->
            <<"Access at unusual time", Hour(threat.timestamp),
              threat.timestamp % MinutesPerHour>>
      [] threat.threat_type = "ACCESS_FREQUENCY_SPIKE" ->
            <<"High access frequency", threat.access_count, threat.window_minutes>>

RECURSIVE log_threats(_, _, _, _)
log_threats(table, threats, person_id, t) ==
    IF threats = <<>> THEN table
    ELSE log_threats(db_log_threat(table, Head(threats).threat_type,
                                   Head(threats).severity, person_id,
                                   Message(Head(threats)), t).table,
                     Tail(threats), person_id, t)

Init ==
    /\ now \in StartTimes
    /\ failed_attempts = <<>>
    /\ access_log = <<>>
    /\ known_faces = <<>>
    /\ person_names = <<>>
    /\ db_access_logs = <<>>
    /\ db_anomalies = <<>>
    /\ db_threats = <<>>
    /\ model = NoModel
    /\ is_trained = FALSE
    /\ model_file = NoFile
    /\ dataset = NoFile
    /\ threads = [thread \in Threads |-> NotCalling(0)]
    /\ ret = NoCall

(* the wall clock advances *)
Tick ==
    \E d \in TickSteps :
        /\ Elapsed(now) + d <= MaxElapsed
        /\ now' = now + d
        /\ ret' = NoCall
        /\ UNCHANGED <<threatVars, faceVars, dbVars, anomalyVars>>

(* nothing happens for an hour *)
Idle ==
    /\ SinceBoot(now) < IdleMinutes
    /\ now' = now + IdleMinutes
    /\ ret' = NoCall
    /\ UNCHANGED <<threatVars, faceVars, dbVars, anomalyVars>>

(* the clock may move on between the two datetime.now() of a failed attempt *)
LogAccessAttempt ==
    \E person_id \in Persons, success \in BOOLEAN, skew \in {0, 1} :
        /\ Len(access_log) < MaxLog
        /\ Elapsed(now) + skew <= MaxElapsed
        /\ (success => skew = 0)
        /\ access_log' = log_access_attempt_access_log(access_log, person_id, success, now)
        /\ failed_attempts' = log_access_attempt_failed_attempts(failed_attempts, person_id, success, now + skew)
        /\ now' = now + skew
        /\ ret' = [op |-> "log_access_attempt", person_id |-> person_id, success |-> success]
        /\ UNCHANGED <<faceVars, dbVars, anomalyVars>>

CheckFailedAccessAttempts ==
    \E person_id \in Persons :
        /\ ret' = [op |-> "check_failed_access_attempts", person_id |-> person_id,
                   value |-> check_failed_access_attempts(failed_attempts, person_id, now)]
        /\ UNCHANGED <<now, threatVars, faceVars, dbVars, anomalyVars>>

CheckInactivity ==
    \E person_id \in Persons, age \in LastActivityAges :
        /\ ret' = [op |-> "check_inactivity", person_id |-> person_id,
                   last_activity |-> now - age,
                   value |-> check_inactivity(person_id, now - age, now)]
        /\ UNCHANGED <<now, threatVars, faceVars, dbVars, anomalyVars>>

CheckUnusualAccessTime ==
    \E person_id \in Persons, unusual_hours \in UnusualHoursArgs :
        /\ ret' = [op |-> "check_unusual_access_time", person_id |-> person_id,
                   unusual_hours |-> unusual_hours,
                   value |-> check_unusual_access_time(person_id, unusual_hours, now)]
        /\ UNCHANGED <<now, threatVars, faceVars, dbVars, anomalyVars>>

CheckFrequencySpike ==
    \E person_id \in Persons, window_minutes \in WindowArgs, spike_threshold \in SpikeThresholdArgs :
        /\ ret' = [op |-> "check_frequency_spike", person_id |-> person_id,
                   window_minutes |-> window_minutes, spike_threshold |-> spike_threshold,
                   value |-> check_frequency_spike(access_log, person_id, window_minutes, spike_threshold, now)]
        /\ UNCHANGED <<now, threatVars, faceVars, dbVars, anomalyVars>>

RegisterFace ==
    \E person_id \in FaceIds, name \in FaceNames, face_encoding \in Encodings :
        /\ CountEncodings(known_faces) < MaxFaces
        /\ known_faces' = register_face_known_faces(known_faces, person_id, face_encoding)
        /\ person_names' = register_face_person_names(person_names, person_id, name)
        /\ ret' = [op |-> "register_face", person_id |-> person_id, name |-> name,
                   face_encoding |-> face_encoding, value |-> TRUE]
        /\ UNCHANGED <<now, threatVars, dbVars, anomalyVars, threads>>

(* register_face run by a thread, one step at a time: the interpreter may
   switch threads between any two of them *)
RegisterCall ==
    \E thread \in Threads, person_id \in FaceIds, name \in FaceNames,
       face_encoding \in ThreadEncodings :
        /\ threads[thread].pc = "idle"
        /\ Completed(threads, Threads) + InFlight(threads) < MaxFaces
        /\ threads' = [threads EXCEPT ![thread] =
                          [@ EXCEPT !.pc = "check", !.person_id = person_id,
                                    !.name = name, !.face_encoding = face_encoding]]
        /\ UNCHANGED <<now, threatVars, dbVars, anomalyVars, known_faces, person_names, ret>>

RegisterCheck ==
    \E thread \in Threads :
        /\ threads[thread].pc = "check"
        /\ threads' = [threads EXCEPT ![thread].pc =
                          IF HasPerson(known_faces, threads[thread].person_id)
                          THEN "load" ELSE "create"]
        /\ UNCHANGED <<now, threatVars, dbVars, anomalyVars, known_faces, person_names, ret>>

RegisterCreate ==
    \E thread \in Threads :
        /\ threads[thread].pc = "create"
        /\ known_faces' = known_faces_set_empty(known_faces, threads[thread].person_id)
        /\ threads' = [th \in Threads |->
                          IF th = thread THEN [threads[th] EXCEPT !.pc = "load"]
                          ELSE IF /\ threads[th].pc = "append"
                                  /\ threads[th].person_id = threads[thread].person_id
                               THEN [threads[th] EXCEPT !.stale = TRUE]
                               ELSE threads[th]]
        /\ UNCHANGED <<now, threatVars, dbVars, anomalyVars, person_names, ret>>

RegisterLoad ==
    \E thread \in Threads :
        /\ threads[thread].pc = "load"
        /\ threads' = [threads EXCEPT ![thread].pc = "append", ![thread].stale = FALSE]
        /\ UNCHANGED <<now, threatVars, dbVars, anomalyVars, known_faces, person_names, ret>>

RegisterAppend ==
    \E thread \in Threads :
        /\ threads[thread].pc = "append"
        /\ known_faces' = IF threads[thread].stale THEN known_faces
                          ELSE known_faces_append(known_faces, threads[thread].person_id,
                                                  threads[thread].face_encoding)
        /\ threads' = [threads EXCEPT ![thread].pc = "name"]
        /\ UNCHANGED <<now, threatVars, dbVars, anomalyVars, person_names, ret>>

RegisterReturn ==
    \E thread \in Threads :
        /\ threads[thread].pc = "name"
        /\ person_names' = register_face_person_names(person_names, threads[thread].person_id,
                                                      threads[thread].name)
        /\ threads' = [threads EXCEPT ![thread] = NotCalling(@.completed + 1)]
        /\ ret' = [op |-> "register_face", person_id |-> threads[thread].person_id,
                   name |-> threads[thread].name,
                   face_encoding |-> threads[thread].face_encoding, value |-> TRUE]
        /\ UNCHANGED <<now, threatVars, dbVars, anomalyVars, known_faces>>

(* get_recognition_stats read by another thread *)
GetRecognitionStats ==
    /\ ret' = [op |-> "get_recognition_stats", value |-> get_recognition_stats(known_faces)]
    /\ UNCHANGED <<now, threatVars, faceVars, dbVars, anomalyVars>>

(* recognize_face on a crop whose extracted encoding is test_encoding *)
RecognizeFace ==
    \E test_encoding \in Encodings :
        /\ ret' = [op |-> "recognize_face", test_encoding |-> test_encoding,
                   value |-> recognize_face(known_faces, person_names, test_encoding, now)]
        /\ UNCHANGED <<now, threatVars, faceVars, dbVars, anomalyVars>>

(* one iteration of the loop of test_complete_flow on an event of events;
   the clock does not move within the iteration; what the store calls return
   is not looked at *)
ProcessEventFrom(events) ==
    \E event \in events :
        LET log1 == log_access_attempt_access_log(access_log, event.person_id, TRUE, now)
            failed1 == log_access_attempt_failed_attempts(failed_attempts, event.person_id, TRUE, now)
            anomaly_result == predict_anomaly_untrained
            low == event.confidence < LowConfidence
            threats == (IF low
                        THEN Optional(check_failed_access_attempts(failed1, event.person_id, now))
                        ELSE <<>>)
                       \o Optional(check_unusual_access_time(event.person_id,
                                       [is_none |-> TRUE, hours |-> {}], now))
        IN /\ Len(access_log) < MaxLog
           /\ db_access_logs' = db_log_access(db_access_logs, event.person_id, event.type,
                                              event.confidence, "success", now).table
           /\ access_log' = log1
           /\ failed_attempts' = failed1
           /\ db_anomalies' = IF anomaly_result.is_anomaly
                              THEN db_log_anomaly(db_anomalies, event.person_id,
                                       "BEHAVIORAL_ANOMALY", anomaly_result.anomaly_score,
                                       "Unusual access pattern detected", now).table
                              ELSE db_anomalies
           /\ db_threats' = log_threats(db_threats, threats, event.person_id, now)
           /\ ret' = [op |-> "process_event", event |-> event,
                      evaluated |-> (IF low THEN {"RepeatedFailedAccess"} ELSE {})
                                    \cup {"UnusualAccessTime"},
                      anomaly |-> anomaly_result,
                      value |-> threats]
           /\ UNCHANGED <<now, faceVars, anomalyVars>>

ProcessEvent == ProcessEventFrom(Events(now))

(* the same iteration on an event whose type the store refuses *)
ProcessRejectedEvent == ProcessEventFrom(RejectedEvents(now))

(* Database.log_access, log_threat and log_anomaly called on their own, with
   arguments inside and outside the constraints of the schema *)
DbLogAccessUpTo(rows) ==
    \E user_id \in StoreUsers, access_type \in {"entry", "denied"} :
        LET logged == db_log_access(db_access_logs, user_id, access_type, 92, "success", now)
        IN /\ Len(db_access_logs) < rows
           /\ db_access_logs' = logged.table
           /\ ret' = [op |-> "db_log_access", user_id |-> user_id,
                      access_type |-> access_type, value |-> logged.ok]
           /\ UNCHANGED <<now, threatVars, faceVars, anomalyVars, db_anomalies, db_threats>>

DbLogAccess == DbLogAccessUpTo(MaxStore)

(* log_access called until the table is longer than the default limit *)
DbLogAccessMany == DbLogAccessUpTo(MaxRows)

DbLogThreatUpTo(rows) ==
    \E user_id \in StoreUsers, severity \in {"MEDIUM", "URGENT"} :
        LET logged == db_log_threat(db_threats, "TEST_THREAT", severity, user_id,
                                    <<"Test threat">>, now)
        IN /\ Len(db_threats) < rows
           /\ db_threats' = logged.table
           /\ ret' = [op |-> "db_log_threat", user_id |-> user_id,
                      severity |-> severity, value |-> logged.ok]
           /\ UNCHANGED <<now, threatVars, faceVars, anomalyVars, db_access_logs, db_anomalies>>

DbLogThreat == DbLogThreatUpTo(MaxStore)

DbLogThreatMany == DbLogThreatUpTo(MaxLog)

DbLogAnomaly ==
    \E user_id \in StoreUsers :
        LET logged == db_log_anomaly(db_anomalies, user_id, "BEHAVIORAL_ANOMALY", 64,
                                     "Unusual access pattern detected", now)
        IN /\ Len(db_anomalies) < MaxStore
           /\ db_anomalies' = logged.table
           /\ ret' = [op |-> "db_log_anomaly", user_id |-> user_id, value |-> logged.ok]
           /\ UNCHANGED <<now, threatVars, faceVars, anomalyVars, db_access_logs, db_threats>>

TrainIsolationForest ==
    \E training_data \in TrainingData, sklearn \in BOOLEAN, fitted_forest \in Forests :
        LET trained == train_isolation_forest(model, is_trained, training_data,
                                              sklearn, fitted_forest)
        IN /\ model' = trained.model
           /\ is_trained' = trained.is_trained
           /\ ret' = [op |-> "train_isolation_forest", training_data |-> training_data,
                      value |-> trained.value]
           /\ UNCHANGED <<now, threatVars, faceVars, dbVars, model_file, dataset>>

(* logs a TODO and returns False *)
TrainLstmAutoencoder ==
    /\ ret' = [op |-> "train_lstm_autoencoder", value |-> FALSE]
    /\ UNCHANGED <<now, threatVars, faceVars, dbVars, anomalyVars>>

PredictAnomaly ==
    \E access_event \in DetectorEvents :
        /\ ret' = [op |-> "predict_anomaly", access_event |-> access_event,
                   value |-> predict_anomaly(model, is_trained, access_event, now)]
        /\ UNCHANGED <<now, threatVars, faceVars, dbVars, anomalyVars>>

BatchPredict ==
    \E access_events \in EventSequences(DetectorEvents) :
        /\ ret' = [op |-> "batch_predict", access_events |-> access_events,
                   value |-> batch_predict(model, is_trained, access_events, now)]
        /\ UNCHANGED <<now, threatVars, faceVars, dbVars, anomalyVars>>

SaveModel ==
    \E filepath \in Paths :
        LET saved == save_model(model_file, model, filepath)
        IN /\ model_file' = saved.file
           /\ ret' = [op |-> "save_model", filepath |-> filepath, value |-> saved.value]
           /\ UNCHANGED <<now, threatVars, faceVars, dbVars, model, is_trained, dataset>>

LoadModel ==
    \E filepath \in Paths :
        LET loaded == load_model(model, is_trained, model_file, filepath)
        IN /\ model' = loaded.model
           /\ is_trained' = loaded.is_trained
           /\ ret' = [op |-> "load_model", filepath |-> filepath, value |-> loaded.value]
           /\ UNCHANGED <<now, threatVars, faceVars, dbVars, model_file, dataset>>

ExtractFeatures ==
    \E access_sequence \in EventSequences(EventInputs) :
        /\ ret' = [op |-> "extract_features", access_sequence |-> access_sequence,
                   value |-> extract_features(access_sequence)]
        /\ UNCHANGED <<now, threatVars, faceVars, dbVars, anomalyVars>>

Next ==
    \/ Tick
    \/ LogAccessAttempt
    \/ CheckFailedAccessAttempts
    \/ CheckFrequencySpike
    \/ CheckInactivity
    \/ CheckUnusualAccessTime

Spec == Init /\ [][Next]_vars

(* the event pipeline *)
NextPipeline ==
    \/ Tick
    \/ ProcessEvent

SpecPipeline == Init /\ [][NextPipeline]_vars

(* generate_dataset with num_days = 0 creates no event *)
GenerateDataset ==
    \E events \in EventSequences(CreatedEvents(now)) :
        /\ dataset' = write_csv(dataset, events)
        /\ ret' = [op |-> "generate_dataset", events |-> events,
                   value |-> "data/synthetic_dataset.csv"]
        /\ UNCHANGED <<now, threatVars, faceVars, dbVars, model, is_trained, model_file>>

TrainModel ==
    \E sklearn \in BOOLEAN, fitted_forest \in Forests :
        LET trained == train_model(model, is_trained, dataset, model_file, sklearn, fitted_forest)
        IN /\ model' = trained.model
           /\ is_trained' = trained.is_trained
           /\ model_file' = trained.model_file
           /\ ret' = [op |-> "train_model", raised |-> trained.raised,
                      value |-> IF trained.raised THEN FALSE ELSE trained.value]
           /\ UNCHANGED <<now, threatVars, faceVars, dbVars, dataset>>

EvaluateModel ==
    LET evaluated == evaluate_model(model, is_trained, dataset, now)
    IN /\ ret' = [op |-> "evaluate_model", predictions |-> evaluated.predictions,
                  raised |-> evaluated.raised]
       /\ UNCHANGED <<now, threatVars, faceVars, dbVars, anomalyVars>>

(* the trainer script, and train_isolation_forest called on its own *)
NextTrainer ==
    \/ GenerateDataset
    \/ TrainModel
    \/ EvaluateModel
    \/ TrainIsolationForest

SpecTrainer == Init /\ [][NextTrainer]_vars

ExtractFaceFeatures ==
    \E face_roi \in Crops :
        /\ ret' = [op |-> "extract_face_features", face_roi |-> face_roi,
                   value |-> extract_face_features(face_roi)]
        /\ UNCHANGED <<now, threatVars, faceVars, dbVars, anomalyVars>>

NextExtract == ExtractFaceFeatures

SpecExtract == Init /\ [][NextExtract]_vars

(* register_face from two threads, with readers *)
NextConcurrent ==
    \/ RegisterCall
    \/ RegisterCheck
    \/ RegisterCreate
    \/ RegisterLoad
    \/ RegisterAppend
    \/ RegisterReturn
    \/ GetRecognitionStats

SpecConcurrent == Init /\ [][NextConcurrent]_vars

(* GET /threats over what log_threat has stored *)
GetThreats ==
    \E person_id \in {"resident_001", NoValue}, severity \in {"MEDIUM", NoValue},
       ascending \in BOOLEAN :
        /\ ret' = [op |-> "get_threats", person_id |-> person_id, severity |-> severity,
                   ascending |-> ascending,
                   value |-> get_threats(db_threats, person_id, severity, ascending)]
        /\ UNCHANGED <<now, threatVars, faceVars, dbVars, anomalyVars>>

NextThreats ==
    \/ DbLogThreatMany
    \/ GetThreats

SpecThreats == Init /\ [][NextThreats]_vars

(* GET /logs *)
GetAccessLogs ==
    \E person_id \in {"resident_001", NoValue}, page \in Pages, ascending \in BOOLEAN :
        /\ ret' = [op |-> "get_access_logs", person_id |-> person_id,
                   ascending |-> ascending,
                   value |-> get_access_logs(db_access_logs, person_id, page.limit,
                                             page.offset, ascending)]
        /\ UNCHANGED <<now, threatVars, faceVars, dbVars, anomalyVars>>

NextLogs ==
    \/ DbLogAccessMany
    \/ GetAccessLogs

SpecLogs == Init /\ [][NextLogs]_vars

(* the store on its own and under the pipeline, with inserts that fail *)
NextStore ==
    \/ ProcessRejectedEvent
    \/ DbLogAccess
    \/ DbLogThreat
    \/ DbLogAnomaly

SpecStore == Init /\ [][NextStore]_vars

(* enrollment and matching *)
NextFace ==
    \/ RegisterFace
    \/ RecognizeFace

SpecFace == Init /\ [][NextFace]_vars

(* the history through an idle hour *)
NextIdle ==
    \/ Tick
    \/ Idle
    \/ LogAccessAttempt
    \/ CheckFailedAccessAttempts
    \/ CheckFrequencySpike

SpecIdle == Init /\ [][NextIdle]_vars

(* training, persistence and single predictions of the detector *)
NextAnomaly ==
    \/ TrainIsolationForest
    \/ TrainLstmAutoencoder
    \/ PredictAnomaly
    \/ SaveModel
    \/ LoadModel

SpecAnomaly == Init /\ [][NextAnomaly]_vars

(* the evaluation run of the trainer *)
NextBatch ==
    \/ TrainIsolationForest
    \/ BatchPredict

SpecBatch == Init /\ [][NextBatch]_vars

(* feature extraction on its own *)
NextFeatures == ExtractFeatures

SpecFeatures == Init /\ [][NextFeatures]_vars

(* ------------------------------------------------------------ properties *)

(* failures of person p logged less than the window before t *)
FailuresInWindow(p, t) ==
    {i \in DOMAIN failed_attempts :
        /\ failed_attempts[i].person_id = p
        /\ t - failed_attempts[i].timestamp < failed_attempt_window_minutes}

(* C1: check_failed_access_attempts(p) returns an alert exactly when the
   failures logged for p inside the trailing window number at least
   failed_attempt_threshold; the alert is REPEATED_FAILED_ACCESS, HIGH, with
   failed_count that number; 3 failures give failed_count 3, 2 give none. *)
C1_RepeatedFailedAccess ==
    ret.op = "check_failed_access_attempts" =>
        LET n == Cardinality(FailuresInWindow(ret.person_id, now))
        IN /\ (ret.value # None) <=> (n >= failed_attempt_threshold)
           /\ (ret.value # None) =>
                 /\ ret.value.threat_type = "REPEATED_FAILED_ACCESS"
                 /\ ret.value.severity = "HIGH"
                 /\ ret.value.person_id = ret.person_id
                 /\ ret.value.failed_count = n
           /\ (n = 3) => (ret.value # None /\ ret.value.failed_count = 3)
           /\ (n = 2) => (ret.value = None)

(* three failures of one person inside the window, and the alert returned *)
C1_Witness ==
    /\ ret.op = "check_failed_access_attempts"
    /\ ret.value # None
    /\ ret.value.failed_count = 3
    /\ Cardinality(FailuresInWindow(ret.person_id, now)) = 3

(* C6: check_inactivity fires, CRITICAL, exactly when now - last_activity is
   strictly more than the threshold: exactly 24 hours does not fire. *)
C6_ProlongedInactivity ==
    ret.op = "check_inactivity" =>
        LET elapsed == now - ret.last_activity
        IN /\ (ret.value # None) <=> (elapsed > inactivity_threshold_hours * MinutesPerHour)
           /\ (ret.value # None) =>
                 /\ ret.value.threat_type = "PROLONGED_INACTIVITY"
                 /\ ret.value.severity = "CRITICAL"
                 /\ ret.value.person_id = ret.person_id
           /\ (elapsed = 24 * 60) => (ret.value = None)

C6_Witness ==
    /\ ret.op = "check_inactivity"
    /\ now - ret.last_activity = 24 * 60
    /\ ret.value = None

(* successful accesses of person p logged less than w minutes before t *)
SuccessesInWindow(p, w, t) ==
    {i \in DOMAIN access_log :
        /\ access_log[i].person_id = p
        /\ access_log[i].status = "success"
        /\ t - access_log[i].timestamp < w}

(* C7: check_frequency_spike fires, MEDIUM, exactly when the successful
   accesses of the person inside the trailing window strictly exceed the
   threshold; failures and other persons' accesses are not counted. *)
C7_AccessFrequencySpike ==
    ret.op = "check_frequency_spike" =>
        LET n == Cardinality(SuccessesInWindow(ret.person_id, ret.window_minutes, now))
        IN /\ (ret.value # None) <=> (n > ret.spike_threshold)
           /\ (ret.value # None) =>
                 /\ ret.value.threat_type = "ACCESS_FREQUENCY_SPIKE"
                 /\ ret.value.severity = "MEDIUM"
                 /\ ret.value.person_id = ret.person_id
                 /\ ret.value.access_count = n
           /\ (n = ret.spike_threshold) => (ret.value = None)

(* a count at the threshold with a failure of the same person in the window:
   no alert *)
C7_Witness ==
    /\ ret.op = "check_frequency_spike"
    /\ ret.value = None
    /\ Cardinality(SuccessesInWindow(ret.person_id, ret.window_minutes, now)) = ret.spike_threshold
    /\ \E i \in DOMAIN access_log :
          /\ access_log[i].person_id = ret.person_id
          /\ access_log[i].status = "failed"
          /\ now - access_log[i].timestamp < ret.window_minutes

(* the events of person p stored by the pipeline with a confidence below the
   recognition threshold, less than the failed-attempt window before t *)
FailedEventsInWindow(p, t) ==
    {i \in DOMAIN db_access_logs :
        /\ db_access_logs[i].user_id = p
        /\ db_access_logs[i].confidence < LowConfidence
        /\ t - db_access_logs[i].timestamp < failed_attempt_window_minutes}

HasAlert(threats, type) == \E i \in DOMAIN threats : threats[i].threat_type = type

(* C2: the pipeline records every event in the rule engine's history with its
   actual outcome, a failed event as failed, before the rules are evaluated,
   so that the k-th failed event of a person inside the window, k at least
   the threshold, produces a RepeatedFailedAccess alert. *)
C2_PipelineRecordsOutcome ==
    ret.op = "process_event" =>
        LET failed == ret.event.confidence < LowConfidence
        IN /\ access_log[Len(access_log)].person_id = ret.event.person_id
           /\ access_log[Len(access_log)].status = (IF failed THEN "failed" ELSE "success")
           /\ (failed /\ Cardinality(FailedEventsInWindow(ret.event.person_id, now))
                             >= failed_attempt_threshold)
                 => HasAlert(ret.value, "REPEATED_FAILED_ACCESS")

AllRules ==
    {"RepeatedFailedAccess", "ProlongedInactivity", "UnusualAccessTime", "AccessFrequencySpike"}

(* C3: the pipeline evaluates all four rules for every event, and every rule
   whose condition holds has its alert in the result. *)
C3_AllRulesEvaluated ==
    ret.op = "process_event" =>
        LET p == ret.event.person_id
        IN /\ ret.evaluated = AllRules
           /\ check_failed_access_attempts(failed_attempts, p, now) # None
                 => HasAlert(ret.value, "REPEATED_FAILED_ACCESS")
           /\ check_unusual_access_time(p, [is_none |-> TRUE, hours |-> {}], now) # None
                 => HasAlert(ret.value, "UNUSUAL_ACCESS_TIME")
           /\ check_frequency_spike(access_log, p, default_window_minutes,
                                    default_spike_threshold, now) # None
                 => HasAlert(ret.value, "ACCESS_FREQUENCY_SPIKE")
           /\ \A i \in 1..(Len(access_log) - 1) :
                 (access_log[i].person_id = p
                  /\ check_inactivity(p, access_log[i].timestamp, now) # None)
                 => HasAlert(ret.value, "PROLONGED_INACTIVITY")

(* C4: UnusualAccessTime fires, MEDIUM, exactly when the hour of the event's
   own timestamp is an unusual hour, whatever the wall clock reads. *)
C4_UnusualHourOfEvent ==
    ret.op = "process_event" =>
        /\ HasAlert(ret.value, "UNUSUAL_ACCESS_TIME")
              <=> (Hour(ret.event.timestamp) \in DefaultUnusualHours)
        /\ \A i \in DOMAIN ret.value :
              ret.value[i].threat_type = "UNUSUAL_ACCESS_TIME" => ret.value[i].severity = "MEDIUM"

(* the longest window a rule reads the history through *)
LongestWindow ==
    IF failed_attempt_window_minutes > default_window_minutes
    THEN failed_attempt_window_minutes ELSE default_window_minutes

(* C5: after a rule evaluation the history holds no entry older than the
   longest window, so its size is at most the number of events inside it. *)
C5_HistoryPruned ==
    ret.op \in {"check_failed_access_attempts", "check_frequency_spike"} =>
        /\ \A i \in DOMAIN access_log : now - access_log[i].timestamp <= LongestWindow
        /\ \A i \in DOMAIN failed_attempts : now - failed_attempts[i].timestamp <= LongestWindow

EnrolledVectors ==
    UNION {{known_faces[i].encodings[j] : j \in DOMAIN known_faces[i].encodings} :
              i \in DOMAIN known_faces}

(* the squared distances from q to the enrolled vectors *)
DistancesFrom(q) == {Distance2(q, v) : v \in EnrolledVectors}

Minimum(S) == CHOOSE m \in S : \A x \in S : m <= x

(* C8: against an empty registry recognize_face returns person_id None, name
   'Unknown' and confidence 0 for every descriptor. *)
C8_EmptyRegistry ==
    (ret.op = "recognize_face" /\ known_faces = <<>>) =>
        /\ ~ret.value.raised
        /\ ret.value.person_id = NoPerson
        /\ ret.value.name = "Unknown"
        /\ ret.value.confidence = 0

C8_Witness ==
    /\ ret.op = "recognize_face"
    /\ known_faces = <<>>
    /\ ret.test_encoding \in Vectors
    /\ ret.value.person_id = NoPerson

(* C9: once v is registered, recognize_face on v reports confidence 1 and
   a person, whatever else is enrolled. *)
C9_RegisteredIsMatched ==
    (ret.op = "recognize_face" /\ ret.test_encoding \in EnrolledVectors
       /\ ret.test_encoding # NoEncoding) =>
        /\ ~ret.value.raised
        /\ ret.value.confidence = 100
        /\ ret.value.person_id # NoPerson

(* C10: a person is reported only if the least distance is strictly below
   0.7; at 0.7 or more the result is None/'Unknown' with the confidence
   max(0, 1 - distance) still reported; the confidence lies in [0,1] and does
   not increase with the distance. *)
C10_MatchBelowThreshold ==
    (ret.op = "recognize_face" /\ ret.test_encoding # NoEncoding /\ ~ret.value.raised) =>
        LET c == ret.value.confidence
        IN /\ c \in 0..100
           /\ ret.value.person_id # NoPerson =>
                 /\ EnrolledVectors # {}
                 /\ Minimum(DistancesFrom(ret.test_encoding)) < 49
           /\ EnrolledVectors # {} =>
                 LET m == Minimum(DistancesFrom(ret.test_encoding))
                 IN /\ m >= 49 =>
                          (ret.value.person_id = NoPerson /\ ret.value.name = "Unknown")
                    /\ IF m >= 100 THEN c = 0
                       ELSE /\ (100 - c) * (100 - c) <= m * 100
                            /\ m * 100 < (101 - c) * (101 - c)
                    /\ \A q \in Vectors :
                          Minimum(DistancesFrom(q)) >= m =>
                              recognize_face(known_faces, person_names, q, now).confidence <= c

(* the least distance is 0.7 or more and less than 1: nobody is reported and
   the confidence is positive *)
C10_Witness ==
    /\ ret.op = "recognize_face"
    /\ ret.test_encoding # NoEncoding
    /\ ~ret.value.raised
    /\ EnrolledVectors # {}
    /\ Minimum(DistancesFrom(ret.test_encoding)) >= 49
    /\ ret.value.person_id = NoPerson
    /\ ret.value.confidence > 0

(* the persons owning an enrolled encoding at squared distance d from q *)
OwnersAt(q, d) ==
    {known_faces[i].person_id : i \in
        {k \in DOMAIN known_faces :
            \E j \in DOMAIN known_faces[k].encodings :
                Distance2(q, known_faces[k].encodings[j]) = d}}

(* C11: when recognize_face reports a person, that person owns an enrolled
   encoding whose distance to the query is the least over all the encodings
   of all the persons. *)
C11_NearestOfAll ==
    (ret.op = "recognize_face" /\ ~ret.value.raised /\ ret.value.person_id # NoPerson) =>
        ret.value.person_id \in
            OwnersAt(ret.test_encoding, Minimum(DistancesFrom(ret.test_encoding)))

(* two persons at different distances from the query, the second enrolled
   is the nearer and is reported *)
C11_Witness ==
    /\ ret.op = "recognize_face"
    /\ ~ret.value.raised
    /\ Len(known_faces) = 2
    /\ ret.value.person_id = known_faces[2].person_id
    /\ Distance2(ret.test_encoding, known_faces[2].encodings[1])
          < Distance2(ret.test_encoding, known_faces[1].encodings[1])
    /\ Distance2(ret.test_encoding, known_faces[1].encodings[1]) < MatchDistance * MatchDistance

(* the registry built by register_face calls in the order of pairs *)
RECURSIVE Registered(_)
Registered(pairs) ==
    IF pairs = <<>> THEN <<>>
    ELSE register_face_known_faces(Registered(SubSeq(pairs, 1, Len(pairs) - 1)),
                                   pairs[Len(pairs)].person_id,
                                   pairs[Len(pairs)].encoding)

(* the same enrollments in every order *)
Orders(pairs) ==
    {[i \in DOMAIN pairs |-> pairs[f[i]]] :
        f \in {g \in [DOMAIN pairs -> DOMAIN pairs] :
                  \A i, j \in DOMAIN pairs : g[i] = g[j] => i = j}}

(* C12: a registry holding the same enrollments, registered in any other
   order, gives the same person and the same confidence for the query, also
   when the query is as far from one person's encoding as from another's. *)
C12_OrderIndependent ==
    ret.op = "recognize_face" =>
        \A order \in Orders(Enrolled(known_faces)) :
            LET other == recognize_face(Registered(order), person_names,
                                        ret.test_encoding, now)
            IN /\ other.raised = ret.value.raised
               /\ ~other.raised =>
                     /\ other.person_id = ret.value.person_id
                     /\ other.confidence = ret.value.confidence

(* the length of a descriptor; the model's encodings have two coordinates
   where the extractor's have 128 *)
Dimension == 2

(* C13: every person in the registry owns at least one encoding and every
   stored encoding has the full length; register_face never stores an absent
   or wrong-length descriptor. *)
C13_RegistryWellFormed ==
    \A i \in DOMAIN known_faces :
        /\ Len(known_faces[i].encodings) >= 1
        /\ \A j \in DOMAIN known_faces[i].encodings :
              /\ known_faces[i].encodings[j] # NoEncoding
              /\ Len(known_faces[i].encodings[j]) = Dimension

(* C14: recognize_face returns a result and raises nothing, for every crop
   and every registry that register_face can build, a missing descriptor
   included; a crop with no descriptor gives None/'Unknown'. *)
C14_RecognizeNeverRaises ==
    ret.op = "recognize_face" =>
        /\ ~ret.value.raised
        /\ ret.test_encoding = NoEncoding =>
              (ret.value.person_id = NoPerson /\ ret.value.name = "Unknown")

(* C15: while no train or load has succeeded, predict_anomaly returns
   is_anomaly False, anomaly_score 0 and the reason 'Model not trained' for
   every event, malformed ones included, and no computed score. *)
C15_UntrainedIsNeutral ==
    (ret.op = "predict_anomaly" /\ ~is_trained) =>
        /\ ret.value.is_anomaly = FALSE
        /\ ret.value.anomaly_score = 0
        /\ "reason" \in DOMAIN ret.value
        /\ ret.value.reason = "Model not trained"
        /\ "error" \notin DOMAIN ret.value

(* a fit has failed, leaving an unfitted forest behind, and the event has no
   timestamp *)
C15_Witness ==
    /\ ret.op = "predict_anomaly"
    /\ ~is_trained
    /\ model = Unfitted
    /\ ret.access_event \in MalformedEvents
    /\ ret.value.reason = "Model not trained"

(* C16: is_trained is True exactly when the detector holds a fitted model:
   it is False at construction, a fit that succeeds or a load of a trained
   model sets it, train_lstm_autoencoder never does, and whenever it is True
   the model is there and can predict. *)
C16_TrainedIffFitted ==
    [][/\ (is_trained' /\ ~is_trained) =>
             (ret'.op \in {"train_isolation_forest", "load_model"} /\ ret'.value)
       /\ ret'.op = "train_lstm_autoencoder" => is_trained' = is_trained
       /\ is_trained' <=> IsFitted(model')]_vars

(* C17: load_model straight after a successful save_model of the same file
   leaves the detector as it was saved: the same model and the same
   is_trained; an untrained detector saved and loaded is still untrained. *)
C17_SaveLoadRestores ==
    [][(/\ ret.op = "save_model"
        /\ ret.value
        /\ ret'.op = "load_model"
        /\ ret'.filepath = ret.filepath)
       => (/\ ret'.value
           /\ model' = model
           /\ is_trained' = is_trained)]_vars

(* C18: once trained, predict_anomaly reports an anomaly exactly when the
   model's own label for the event is -1, whatever the normalized score is,
   and the anomaly_score it reports lies in [0,1]. *)
C18_LabelDecides ==
    ret.op = "predict_anomaly" =>
        /\ ret.value.anomaly_score \in 0..100
        /\ (is_trained /\ IsFitted(model) /\ WellFormed(ret.access_event)) =>
              LET row == extract_features(<<ret.access_event>>).rows[1]
              IN /\ "error" \notin DOMAIN ret.value
                 /\ ret.value.is_anomaly <=> (model_predict(model, row) = -1)

(* an outlier whose normalized score is below 0.7 is reported as an anomaly *)
C18_Witness ==
    /\ ret.op = "predict_anomaly"
    /\ is_trained
    /\ IsFitted(model)
    /\ WellFormed(ret.access_event)
    /\ ret.value.is_anomaly
    /\ ret.value.anomaly_score < 70
    /\ ret.value.anomaly_score > 0

(* C19: batch_predict returns one verdict per event, the i-th being what
   predict_anomaly gives for the i-th event alone; the call leaves model and
   is_trained as they were; the verdicts of a permuted list are the permuted
   verdicts. *)
C19_BatchIsPointwise ==
    [][ret'.op = "batch_predict" =>
          /\ model' = model
          /\ is_trained' = is_trained
          /\ Len(ret'.value) = Len(ret'.access_events)
          /\ \A i \in DOMAIN ret'.access_events :
                ret'.value[i] = predict_anomaly(model, is_trained, ret'.access_events[i], now)
          /\ \A f \in {g \in [DOMAIN ret'.access_events -> DOMAIN ret'.access_events] :
                          \A i, j \in DOMAIN g : g[i] = g[j] => i = j} :
                batch_predict(model', is_trained',
                              [i \in DOMAIN f |-> ret'.access_events[f[i]]], now')
                   = [i \in DOMAIN f |-> ret'.value[f[i]]]]_vars

(* a trained detector, a batch of a malformed event and a well-formed one:
   an error verdict next to a computed one *)
C19_Witness ==
    /\ ret.op = "batch_predict"
    /\ is_trained
    /\ IsFitted(model)
    /\ Len(ret.access_events) = 2
    /\ "error" \in DOMAIN ret.value[1]
    /\ "error" \notin DOMAIN ret.value[2]
    /\ ret.value[2].is_anomaly

(* the events of the same person that come before event i in time, the
   order of the list deciding between equal timestamps *)
EarlierOfSamePerson(access_sequence, i) ==
    {j \in DOMAIN access_sequence :
        /\ j # i
        /\ access_sequence[j].person_id = access_sequence[i].person_id
        /\ \/ access_sequence[j].timestamp < access_sequence[i].timestamp
           \/ (access_sequence[j].timestamp = access_sequence[i].timestamp /\ j < i)}

(* the hours since the latest of them, 0 when there is none *)
HoursSincePreceding(access_sequence, i) ==
    LET earlier == EarlierOfSamePerson(access_sequence, i)
    IN IF earlier = {} THEN 0
       ELSE LET last == CHOOSE j \in earlier :
                            \A k \in earlier :
                                access_sequence[k].timestamp <= access_sequence[j].timestamp
            IN Hours(access_sequence[i].timestamp - access_sequence[last].timestamp)

(* the list is in the order of its timestamps, as the dataset file is *)
Chronological(access_sequence) ==
    \A i, j \in DOMAIN access_sequence :
        i < j => access_sequence[i].timestamp <= access_sequence[j].timestamp

(* C20: the time-delta feature of an event is the hours since the preceding
   event of the same person, 0 when that person has none; the events of
   other persons in between do not change it. *)
C20_TimeDeltaPerPerson ==
    (/\ ret.op = "extract_features"
     /\ ~ret.value.raised
     /\ Chronological(ret.access_sequence)) =>
        \A i \in DOMAIN ret.access_sequence :
            ret.value.rows[i].time_diff = HoursSincePreceding(ret.access_sequence, i)

IsFailed(access) == access.status = "failed"

(* C27: failed_attempts holds one entry for each 'failed' entry of
   access_log, in the same order, with the same person_id and the same
   timestamp, so the two lists give the same count of failures in any window
   and total_failed_attempts is at most total_logged_accesses. *)
C27_FailedMirrorsLog ==
    LET failed == SelectSeq(access_log, IsFailed)
    IN /\ Len(failed_attempts) = Len(failed)
       /\ \A i \in DOMAIN failed_attempts :
             /\ i \in DOMAIN failed
             /\ failed_attempts[i].person_id = failed[i].person_id
             /\ failed_attempts[i].timestamp = failed[i].timestamp
       /\ get_threat_stats.total_failed_attempts <= get_threat_stats.total_logged_accesses

(* C28: a train_isolation_forest call that returns False leaves model and
   is_trained as they were, so a detector trained before still predicts with
   the model it had. *)
C28_FailedTrainKeepsState ==
    [][(ret'.op = "train_isolation_forest" /\ ~ret'.value) =>
          /\ model' = model
          /\ is_trained' = is_trained
          /\ \A access_event \in DetectorEvents :
                predict_anomaly(model', is_trained', access_event, now')
                   = predict_anomaly(model, is_trained, access_event, now)]_vars

(* C29: every verdict of predict_anomaly carries is_anomaly, anomaly_score
   and confidence, and a reason whenever the score was not computed by the
   model. *)
C29_VerdictFields ==
    ret.op = "predict_anomaly" =>
        /\ {"is_anomaly", "anomaly_score", "confidence"} \subseteq DOMAIN ret.value
        /\ "timestamp" \notin DOMAIN ret.value => "reason" \in DOMAIN ret.value

(* the row log_threat stores for an alert of person p at clock reading t *)
ThreatRow(threat, p, t) ==
    [user_id |-> p, threat_type |-> threat.threat_type, severity |-> threat.severity,
     message |-> Message(threat), resolved |-> FALSE, timestamp |-> t]

(* C21: for each event the pipeline makes one log_access call, one log_threat
   call per alert raised, with the alert's type, severity, person and
   message, and a log_anomaly call exactly when the verdict is anomalous;
   after N events the store and the rule engine have each recorded N
   accesses. *)
C21_PersistenceForwarded ==
    /\ [](Len(db_access_logs) = Len(access_log))
    /\ [][ret'.op = "process_event" =>
             LET event == ret'.event
             IN /\ db_access_logs' =
                      Append(db_access_logs,
                             [user_id |-> event.person_id, access_type |-> event.type,
                              confidence |-> event.confidence, status |-> "success",
                              timestamp |-> now'])
                /\ Len(access_log') = Len(access_log) + 1
                /\ access_log'[Len(access_log')].person_id = event.person_id
                /\ db_threats' =
                      db_threats \o [i \in DOMAIN ret'.value |->
                                        ThreatRow(ret'.value[i], event.person_id, now')]
                /\ db_anomalies' =
                      IF ret'.anomaly.is_anomaly
                      THEN Append(db_anomalies,
                                  [user_id |-> event.person_id,
                                   anomaly_type |-> "BEHAVIORAL_ANOMALY",
                                   anomaly_score |-> ret'.anomaly.anomaly_score,
                                   description |-> "Unusual access pattern detected",
                                   timestamp |-> now'])
                      ELSE db_anomalies]_vars

(* two events processed at night, each with its alert stored *)
C21_Witness ==
    /\ ret.op = "process_event"
    /\ Len(ret.value) = 1
    /\ Len(db_access_logs) = 2
    /\ Len(access_log) = 2
    /\ Len(db_threats) = 2
    /\ db_threats[2] = ThreatRow(ret.value[1], ret.event.person_id, now)
    /\ db_anomalies = <<>>

(* C22: a store call whose insert fails returns False, raises nothing and
   leaves the tables as they were: log_access on a type outside entry/exit,
   log_threat on a severity outside the four levels, log_anomaly without a
   user; the pipeline goes on with the event all the same, logs it with the
   rule engine, evaluates the rules and stores their alerts. *)
C22_StoreFailureNonFatal ==
    [][/\ ret'.op = "db_log_access" =>
             /\ ret'.value = (ret'.access_type \in AccessTypes /\ ret'.user_id # NoPerson)
             /\ ~ret'.value => db_access_logs' = db_access_logs
             /\ ret'.value => Len(db_access_logs') = Len(db_access_logs) + 1
             /\ UNCHANGED <<db_threats, db_anomalies>>
       /\ ret'.op = "db_log_threat" =>
             /\ ret'.value = (ret'.severity \in Severities)
             /\ ~ret'.value => db_threats' = db_threats
             /\ ret'.value => Len(db_threats') = Len(db_threats) + 1
             /\ UNCHANGED <<db_access_logs, db_anomalies>>
       /\ ret'.op = "db_log_anomaly" =>
             /\ ret'.value = (ret'.user_id # NoPerson)
             /\ ~ret'.value => db_anomalies' = db_anomalies
             /\ ret'.value => Len(db_anomalies') = Len(db_anomalies) + 1
             /\ UNCHANGED <<db_access_logs, db_threats>>
       /\ (ret'.op = "process_event" /\ ret'.event.type \notin AccessTypes) =>
             /\ db_access_logs' = db_access_logs
             /\ Len(access_log') = Len(access_log) + 1
             /\ ret'.anomaly.is_anomaly \in BOOLEAN
             /\ ret'.value = Optional(check_unusual_access_time(
                                 ret'.event.person_id, [is_none |-> TRUE, hours |-> {}], now'))
             /\ Len(db_threats') = Len(db_threats) + Len(ret'.value)]_vars

(* an event of type 'denied' at night: nothing in access_logs, the attempt
   in the rule engine's log and the alert in threats *)
C22_Witness ==
    /\ ret.op = "process_event"
    /\ ret.event.type \notin AccessTypes
    /\ db_access_logs = <<>>
    /\ Len(access_log) = 1
    /\ Len(ret.value) = 1
    /\ Len(db_threats) = 1

(* C25: GET /threats with a person_id answers exactly the active threats
   stored for that person, restricted to the severity when one is given, and
   'total' is their number. *)
StoredFor(person_id, severity, ascending) ==
    LET wanted(row) == /\ ~row.resolved
                       /\ row.user_id = person_id
                       /\ severity # NoValue => row.severity = severity
    IN order_by_timestamp_desc(SelectSeq(db_threats, wanted), ascending)

C25_ThreatsOfPerson ==
    (ret.op = "get_threats" /\ ret.person_id # NoValue) =>
        /\ ret.value.threats = StoredFor(ret.person_id, ret.severity, ret.ascending)
        /\ ret.value.total = Len(ret.value.threats)

(* C26: GET /logs answers the records at positions offset .. offset+limit-1
   of the matching access logs, newest first, and 'total' is the number of
   matching records, however many there are. *)
C26_LogsPage ==
    ret.op = "get_access_logs" =>
        LET matching == MatchingLogs(db_access_logs, ret.person_id, ret.ascending)
        IN /\ ret.value.logs = Slice(matching, ret.value.offset, ret.value.limit)
           /\ ret.value.total = Len(matching)

(* C23: with register calls running in several threads next to reads, no
   enrollment is lost and no reader sees a person without a vector: every
   person of known_faces holds at least one vector, and once every call has
   returned total_face_encodings is the number of calls that returned. *)
C23_NoEnrollmentLost ==
    /\ \A i \in DOMAIN known_faces : known_faces[i].encodings # <<>>
    /\ InFlight(threads) = 0 =>
           get_recognition_stats(known_faces).total_face_encodings
               = Completed(threads, Threads)

(* C24: _extract_face_features answers None or a vector of 128 components
   of L2 norm 1: the 8 direction bins, the 64 gray bins over all the pixels,
   then zeros; it answers None for a crop that is None or empty, and never a
   vector whose norm is not 1.  The vector is features / sqrt(divisor2), of
   norm 1 exactly when the squares of features sum to divisor2. *)
C24_DescriptorUnitOrNone ==
    ret.op = "extract_face_features" =>
        /\ ret.face_roi \in {NoCrop, EmptyCrop} => ret.value = NoEncoding
        /\ ret.value # NoEncoding =>
              /\ Len(ret.value.features) = DescriptorSize
              /\ Norm2(ret.value.features) = ret.value.divisor2
              /\ ret.value.divisor2 > 0
              /\ Total(SubSeq(ret.value.features, DirectionBins + 1,
                              DirectionBins + GrayBins)) = Side * Side
              /\ \A k \in (DirectionBins + GrayBins + 1)..DescriptorSize :
                     ret.value.features[k] = 0

(* a descriptor of an image with edges: gradient and gray bins both filled *)
C24_Witness ==
    /\ ret.op = "extract_face_features"
    /\ ret.value # NoEncoding
    /\ ret.value.features[DirectionBins] > 0
    /\ ret.value.features[DirectionBins + 1] > 0
    /\ ret.value.features[DirectionBins + GrayBins] > 0

(* C30: the events SyntheticDataGenerator writes and load_dataset reads back
   are accepted by the detector: train_model on a generated dataset does not
   raise and leaves is_trained true, and the verdicts evaluate_model then gets
   from batch_predict are computed by the model. *)
ModelComputed(verdict) ==
    /\ "error" \notin DOMAIN verdict
    /\ "reason" \notin DOMAIN verdict

C30_GeneratedDatasetAccepted ==
    /\ (ret.op = "train_model" /\ dataset # NoFile) =>
           /\ ~ret.raised
           /\ ret.value
           /\ is_trained
    /\ (ret.op = "evaluate_model" /\ dataset # NoFile /\ is_trained) =>
           \A i \in DOMAIN ret.predictions : ModelComputed(ret.predictions[i])

====
